---- MODULE Spec2Model ----
(***************************************************************************)
(* Model of opscripts/utils/v5.py: the hard-link based file replacement    *)
(* (atomic_replace_file, back_up_file, write_tempfile) over a small POSIX  *)
(* file system, and the bounded confirmation prompts                       *)
(* (request_confirmation, request_y_to_continue).                          *)
(*                                                                         *)
(* A path is the sequence of its components ("/d/x" is <<"d", "x">>, the   *)
(* path "/d/" with an empty file name is <<"d", "">>).  The directory      *)
(* entries are a function from the paths that exist to inode numbers; hard *)
(* links are several paths with the same inode number.  link(2) semantics  *)
(* are those of Linux: a hard link to a symbolic link links the symbolic   *)
(* link itself.                                                            *)
(***************************************************************************)
EXTENDS Integers, Sequences, FiniteSets, TLC

VARIABLES
    fs,          \* directory entries: existing path -> inode number
    ino,         \* inode table: inode number in use -> inode record
    privileged,  \* the process runs as root
    pc,          \* position inside atomic_replace_file
    args,        \* atomic_replace_file's arguments: file, content, follow_symlink
    loc,         \* its locals: orig_perms, orig_uid, orig_gid, file_temp_name,
                 \* file_backup, and the number of chunks written so far
    outcome,     \* how the last call ended: returned value or raised exception
    pre,         \* the file system when the current call started
    hist,        \* what happened during the current call
    calls,       \* number of atomic_replace_file calls started
    bk,          \* the last stand-alone back_up_file call: arguments, result
    pr           \* state of the confirmation prompt

vars == <<fs, ino, privileged, pc, args, loc, outcome, pre, hist, calls, bk, pr>>

---------------------------------------------------------------------------
(* Bounds of the model *)

\* number of atomic_replace_file calls in one behaviour
MaxCalls == 2
\* number of stand-alone back_up_file calls in one behaviour
MaxBackups == 2

---------------------------------------------------------------------------
(* Python values *)

None == <<>>
False == <<"False">>

\* S_IFREG, the file type bits of st_mode of a regular file
S_IFREG == 32768
\* the mode mkstemp creates a file with (0600)
MkstempMode == 384

---------------------------------------------------------------------------
(* The file system *)

Dirs == {<<"d">>, <<"e">>, <<"m">>}
\* "m" is a mount point: another device
Device(dir) == IF dir = <<"m">> THEN 2 ELSE 1

\* the names mkstemp draws from, and the inode numbers of the file system
TempNames == <<"tmp1", "tmp2", "tmp3", "tmp4">>
InoIds == 1..8

\* os.path.split
split(path) == <<SubSeq(path, 1, Len(path) - 1), path[Len(path)]>>
\* os.path.dirname
dirname(path) == split(path)[1]
\* os.path.join
join(dir, name) == Append(dir, name)
\* os.path.abspath: the model's paths are absolute and normalised
abspath(path) == path
\* os.path.realpath: follows the symbolic link, if the entry is one
realpath(f, i, path) ==
    IF path \in DOMAIN f /\ i[f[path]].kind = "symlink"
    THEN i[f[path]].to ELSE path

Exists(f, path) == path \in DOMAIN f
\* the inode a path leads to, following a symbolic link; 0 when there is none
Target(f, i, path) ==
    LET r == realpath(f, i, path) IN IF Exists(f, r) THEN f[r] ELSE 0
\* what a reader that opens the path finds: the content, or no file (ENOENT)
Absent == <<"ENOENT">>
Reads(f, i, path) ==
    IF Target(f, i, path) = 0 THEN Absent ELSE i[Target(f, i, path)].content

NLink(f, n) == Cardinality({p \in DOMAIN f : f[p] = n})

\* os.link(src, dst): dst becomes another entry of src's inode.  It fails when
\* src has no entry, dst has one, there is no such directory, they are on
\* different devices, or the call fails for another reason (fault).
\* (variant: a link that replaces an existing entry, as a copy or a rename
\* would; the properties of back_up_file must tell it from LinkFails)
LinkFailsClobbering(f, src, dst, fault) ==
    \/ fault
    \/ ~Exists(f, src)
    \/ dirname(dst) \notin Dirs
    \/ Device(dirname(src)) # Device(dirname(dst))
LinkFails(f, src, dst, fault) ==
    \/ fault
    \/ ~Exists(f, src)
    \/ Exists(f, dst)
    \/ dirname(dst) \notin Dirs
    \/ Device(dirname(src)) # Device(dirname(dst))
OsLinkFs(f, src, dst) == (dst :> f[src]) @@ f

\* os.unlink(path): the entry goes, and the inode with its last entry
OsUnlinkFs(f, path) == [p \in DOMAIN f \ {path} |-> f[p]]
OsUnlinkIno(f, i, path) ==
    IF NLink(f, f[path]) = 1 THEN [n \in DOMAIN i \ {f[path]} |-> i[n]] ELSE i

---------------------------------------------------------------------------
(* back_up_file and write_tempfile *)

\* back_up_file(file_path, target_dir, suffix): the returned value (the backup
\* path, or False) and the directory entries afterwards.  fault: os.link fails
\* for a reason the file system's state does not show.
BackupPath(file_path, target_dir, suffix) ==
    join(IF target_dir = None THEN dirname(abspath(file_path)) ELSE target_dir,
         split(file_path)[2] \o suffix)
back_up_file(f, file_path, target_dir, suffix, fault) ==
    LET filename == split(file_path)[2]
        file_backup == BackupPath(file_path, target_dir, suffix)
    IN  IF filename = ""
        THEN [ret |-> False, fs |-> f]
        ELSE IF LinkFails(f, file_path, file_backup, fault)
             THEN [ret |-> False, fs |-> f]
             ELSE [ret |-> file_backup, fs |-> OsLinkFs(f, file_path, file_backup)]

\* tempfile.mkstemp(dir=directory): an unused name in the directory
UnusedTemps(f, directory) ==
    {k \in DOMAIN TempNames : ~Exists(f, join(directory, TempNames[k]))}
MkstempName(f, directory) ==
    join(directory, TempNames[CHOOSE k \in UnusedTemps(f, directory) :
                                  \A j \in UnusedTemps(f, directory) : k <= j])
FreeInos(i) == InoIds \ DOMAIN i
NewIno(i) == CHOOSE n \in FreeInos(i) : \A m \in FreeInos(i) : n <= m

---------------------------------------------------------------------------
(* atomic_replace_file, one action per statement that touches the file system *)

ProcUid == IF privileged THEN 0 ELSE 1000
ProcGid == IF privileged THEN 0 ELSE 1000

\* 0777, the mask of line 90
PermMask == 511
\* st_mode & mask, for a mask of the form 2^k - 1
BitAnd(m, mask) == m % (mask + 1)
\* (variant: the mask 07777, which keeps setuid, setgid and sticky)
orig_perms_12_bits(st_mode) == BitAnd(st_mode, 4095)
orig_perms_of(st_mode) == BitAnd(st_mode, PermMask)

NoArgs == [file |-> None, content |-> <<>>, follow_symlink |-> FALSE]
NoLoc == [orig_perms |-> 0, orig_uid |-> 0, orig_gid |-> 0,
          file_temp_name |-> None, file_temp_ino |-> 0, written |-> 0,
          file_backup |-> None]
NoHist == [backup_conflict |-> FALSE, unlinked |-> FALSE, swap_failed |-> FALSE,
           rollback_fault |-> FALSE, io_failed |-> FALSE]
NoOutcome == [kind |-> "none", value |-> ""]
NoPre == [fs |-> <<>>, ino |-> <<>>]
Returned(v) == [kind |-> "return", value |-> v]
Raised(e) == [kind |-> "raise", value |-> e]

Files == {<<"d", "x">>, <<"d", "lnk">>}
Contents == {<<"a", "b">>, <<"c">>}

\* the call: bind the arguments
Call(file, content, follow_symlink) ==
    /\ pc = "idle"
    /\ calls < MaxCalls
    /\ calls' = calls + 1
    /\ args' = [file |-> file, content |-> content, follow_symlink |-> follow_symlink]
    /\ pre' = [fs |-> fs, ino |-> ino]
    /\ pc' = "guard"
    /\ UNCHANGED <<fs, ino, privileged, loc, outcome, hist, bk, pr>>

\* lines 85-86
\* (variant: the flag read the wrong way round)
SymlinkGuardInverted(f, i, a) ==
    a.follow_symlink /\ abspath(a.file) # realpath(f, i, a.file)
SymlinkGuardTrips(f, i, a) ==
    ~a.follow_symlink /\ abspath(a.file) # realpath(f, i, a.file)
Guard ==
    /\ pc = "guard"
    /\ IF SymlinkGuardTrips(fs, ino, args)
       THEN pc' = "done" /\ outcome' = Returned("False")
       ELSE pc' = "stat" /\ UNCHANGED outcome
    /\ UNCHANGED <<fs, ino, privileged, args, loc, pre, hist, calls, bk, pr>>

\* lines 88-92: os.stat follows a symbolic link and raises when nothing is there
Stat ==
    /\ pc = "stat"
    /\ LET n == Target(fs, ino, args.file) IN
       IF n = 0
       THEN /\ pc' = "done"
            /\ outcome' = Raised("OSError")
            /\ hist' = [hist EXCEPT !.io_failed = TRUE]
            /\ UNCHANGED loc
       ELSE /\ pc' = "mkstemp"
            /\ loc' = [loc EXCEPT !.orig_perms = orig_perms_of(S_IFREG + ino[n].mode),
                                  !.orig_uid = ino[n].uid,
                                  !.orig_gid = ino[n].gid]
            /\ UNCHANGED <<outcome, hist>>
    /\ UNCHANGED <<fs, ino, privileged, args, pre, calls, bk, pr>>

\* line 383: mkstemp creates an empty file, mode 0600, owned by the process
Mkstemp(fault) ==
    /\ pc = "mkstemp"
    /\ IF fault \/ UnusedTemps(fs, dirname(args.file)) = {} \/ FreeInos(ino) = {}
       THEN /\ pc' = "done"
            /\ outcome' = Raised("OSError")
            /\ hist' = [hist EXCEPT !.io_failed = TRUE]
            /\ UNCHANGED <<fs, ino, loc>>
       ELSE LET name == MkstempName(fs, dirname(args.file))
                n == NewIno(ino)
            IN  /\ fs' = (name :> n) @@ fs
                /\ ino' = (n :> [kind |-> "file", content |-> <<>>,
                                 mode |-> MkstempMode, uid |-> ProcUid,
                                 gid |-> ProcGid, to |-> None]) @@ ino
                /\ loc' = [loc EXCEPT !.file_temp_name = name, !.file_temp_ino = n]
                /\ pc' = "write"
                /\ UNCHANGED <<outcome, hist>>
    /\ UNCHANGED <<privileged, args, pre, calls, bk, pr>>

\* lines 385-386: the content reaches the open temp file piece by piece
\* (variant: the content written into the file at the original path)
WriteInPlace == Target(fs, ino, args.file)
WriteDest == loc.file_temp_ino
Write(fault) ==
    /\ pc = "write"
    /\ loc.written < Len(args.content)
    /\ IF fault
       THEN /\ pc' = "done"
            /\ outcome' = Raised("IOError")
            /\ hist' = [hist EXCEPT !.io_failed = TRUE]
            /\ UNCHANGED <<ino, loc>>
       ELSE /\ ino' = [ino EXCEPT ![WriteDest].content =
                           Append(@, args.content[loc.written + 1])]
            /\ loc' = [loc EXCEPT !.written = @ + 1]
            /\ UNCHANGED <<pc, outcome, hist>>
    /\ UNCHANGED <<fs, privileged, args, pre, calls, bk, pr>>

\* line 387: everything is written, the handle is closed
Close ==
    /\ pc = "write"
    /\ loc.written = Len(args.content)
    /\ pc' = "chown"
    /\ UNCHANGED <<fs, ino, privileged, args, loc, outcome, pre, hist, calls, bk, pr>>

\* line 96: only root may give a file away
ChownAllowed(uid, gid) == privileged \/ (uid = ProcUid /\ gid = ProcGid)
Chown ==
    /\ pc = "chown"
    /\ IF ChownAllowed(loc.orig_uid, loc.orig_gid)
       THEN /\ ino' = [ino EXCEPT ![fs[loc.file_temp_name]].uid = loc.orig_uid,
                                  ![fs[loc.file_temp_name]].gid = loc.orig_gid]
            /\ pc' = "chmod"
            /\ UNCHANGED <<outcome, hist>>
       ELSE /\ pc' = "done"
            /\ outcome' = Raised("OSError")
            /\ hist' = [hist EXCEPT !.io_failed = TRUE]
            /\ UNCHANGED ino
    /\ UNCHANGED <<fs, privileged, args, loc, pre, calls, bk, pr>>

\* line 97
Chmod ==
    /\ pc = "chmod"
    /\ ino' = [ino EXCEPT ![fs[loc.file_temp_name]].mode = loc.orig_perms]
    /\ pc' = "backup"
    /\ UNCHANGED <<fs, privileged, args, loc, outcome, pre, hist, calls, bk, pr>>

\* lines 99-100: the returned value is kept, and not looked at
Backup(fault) ==
    /\ pc = "backup"
    /\ LET r == back_up_file(fs, args.file, None, "_orig", fault) IN
       /\ fs' = r.fs
       /\ loc' = [loc EXCEPT !.file_backup = r.ret]
       /\ hist' = [hist EXCEPT !.backup_conflict =
                       Exists(fs, BackupPath(args.file, None, "_orig"))]
    /\ pc' = "unlink"
    /\ UNCHANGED <<ino, privileged, args, outcome, pre, calls, bk, pr>>

\* line 102
Unlink ==
    /\ pc = "unlink"
    /\ fs' = OsUnlinkFs(fs, args.file)
    /\ ino' = OsUnlinkIno(fs, ino, args.file)
    /\ hist' = [hist EXCEPT !.unlinked = TRUE]
    /\ pc' = "link"
    /\ UNCHANGED <<privileged, args, loc, outcome, pre, calls, bk, pr>>

\* lines 103-106: any exception of os.link leads to the except branch
LinkTemp(fault) ==
    /\ pc = "link"
    /\ IF LinkFails(fs, loc.file_temp_name, args.file, fault)
       THEN /\ pc' = "rollback"
            /\ hist' = [hist EXCEPT !.swap_failed = TRUE]
            /\ UNCHANGED fs
       ELSE /\ pc' = "unlink_temp"
            /\ fs' = OsLinkFs(fs, loc.file_temp_name, args.file)
            /\ UNCHANGED hist
    /\ UNCHANGED <<ino, privileged, args, loc, outcome, pre, calls, bk, pr>>

\* lines 107-109: os.link(False, file) is a TypeError; a failing os.link raises
Rollback(fault) ==
    /\ pc = "rollback"
    /\ IF loc.file_backup = False
       THEN /\ outcome' = Raised("TypeError")
            /\ UNCHANGED <<fs, hist>>
       ELSE IF LinkFails(fs, loc.file_backup, args.file, fault)
       THEN /\ outcome' = Raised("OSError")
            /\ hist' = [hist EXCEPT !.rollback_fault = fault]
            /\ UNCHANGED fs
       ELSE /\ outcome' = Returned("False")
            /\ fs' = OsLinkFs(fs, loc.file_backup, args.file)
            /\ UNCHANGED hist
    /\ pc' = "done"
    /\ UNCHANGED <<ino, privileged, args, loc, pre, calls, bk, pr>>

\* lines 111-112
UnlinkTemp ==
    /\ pc = "unlink_temp"
    /\ fs' = OsUnlinkFs(fs, loc.file_temp_name)
    /\ ino' = OsUnlinkIno(fs, ino, loc.file_temp_name)
    /\ pc' = "unlink_backup"
    /\ UNCHANGED <<privileged, args, loc, outcome, pre, hist, calls, bk, pr>>

\* lines 113-115: os.unlink(False) is a TypeError
UnlinkBackup ==
    /\ pc = "unlink_backup"
    /\ IF loc.file_backup = False
       THEN /\ outcome' = Raised("TypeError")
            /\ UNCHANGED <<fs, ino>>
       ELSE /\ outcome' = Returned("True")
            /\ fs' = OsUnlinkFs(fs, loc.file_backup)
            /\ ino' = OsUnlinkIno(fs, ino, loc.file_backup)
    /\ pc' = "done"
    /\ UNCHANGED <<privileged, args, loc, pre, hist, calls, bk, pr>>

\* the caller goes on; the next call may follow
Return ==
    /\ pc = "done"
    /\ pc' = "idle"
    /\ args' = NoArgs
    /\ loc' = NoLoc
    /\ hist' = NoHist
    /\ outcome' = NoOutcome
    /\ pre' = NoPre
    /\ UNCHANGED <<fs, ino, privileged, calls, bk, pr>>

---------------------------------------------------------------------------
(* The initial file system: /d/x, a regular file; /d/lnk, a symbolic link  *)
(* to it; and possibly a file left at /d/x_orig.                           *)

\* 0644 and 04755
Modes == {420, 2541}
Owners == {0, 1000}

InitFs(stale) ==
    [p \in {<<"d", "x">>, <<"d", "lnk">>}
            \cup (IF stale THEN {<<"d", "x_orig">>} ELSE {}) |->
        IF p = <<"d", "x">> THEN 1 ELSE IF p = <<"d", "lnk">> THEN 2 ELSE 3]
InitIno(mode, owner, stale) ==
    [n \in IF stale THEN {1, 2, 3} ELSE {1, 2} |->
        IF n = 1 THEN [kind |-> "file", content |-> <<"o">>, mode |-> mode,
                       uid |-> owner, gid |-> owner, to |-> None]
        ELSE IF n = 2 THEN [kind |-> "symlink", content |-> <<>>, mode |-> 511,
                            uid |-> owner, gid |-> owner, to |-> <<"d", "x">>]
        ELSE [kind |-> "file", content |-> <<"z">>, mode |-> 420,
              uid |-> owner, gid |-> owner, to |-> None]]

NoBk == [n |-> 0, file_path |-> None, target_dir |-> None, suffix |-> "",
         fault |-> FALSE, ret |-> None, fs |-> <<>>]
NoPr == [fn |-> "", pc |-> "idle", i |-> 0, random_int |-> 0, answered |-> FALSE,
         response |-> "", outcome |-> NoOutcome, code |-> 0]

InitFiles ==
    /\ privileged \in BOOLEAN
    /\ \E mode \in Modes, owner \in Owners, stale \in BOOLEAN :
        /\ fs = InitFs(stale)
        /\ ino = InitIno(mode, owner, stale)

Init ==
    /\ InitFiles
    /\ pc = "idle"
    /\ args = NoArgs
    /\ loc = NoLoc
    /\ outcome = NoOutcome
    /\ hist = NoHist
    /\ pre = NoPre
    /\ calls = 0
    /\ bk = NoBk
    /\ pr = NoPr

Next ==
    \/ \E file \in Files, content \in Contents, follow_symlink \in BOOLEAN :
          Call(file, content, follow_symlink)
    \/ Guard
    \/ Stat
    \/ \E fault \in BOOLEAN : Mkstemp(fault)
    \/ \E fault \in BOOLEAN : Write(fault)
    \/ Close
    \/ Chown
    \/ Chmod
    \/ \E fault \in BOOLEAN : Backup(fault)
    \/ Unlink
    \/ \E fault \in BOOLEAN : LinkTemp(fault)
    \/ \E fault \in BOOLEAN : Rollback(fault)
    \/ UnlinkTemp
    \/ UnlinkBackup
    \/ Return

Spec == Init /\ [][Next]_vars

---------------------------------------------------------------------------
(* back_up_file called on its own *)

BackupSources == {<<"d", "x">>, <<"d", "lnk">>, <<"d", "gone">>, <<"d", "">>}
BackupDirs == {None} \cup Dirs
Suffixes == {"_orig", "_bak"}

\* lines 118-148, the whole call
BackUpCall(file_path, target_dir, suffix, fault) ==
    /\ bk.n < MaxBackups
    /\ LET r == back_up_file(fs, file_path, target_dir, suffix, fault) IN
       /\ fs' = r.fs
       /\ bk' = [n |-> bk.n + 1, file_path |-> file_path, target_dir |-> target_dir,
                 suffix |-> suffix, fault |-> fault, ret |-> r.ret, fs |-> fs]
    /\ UNCHANGED <<ino, privileged, pc, args, loc, outcome, pre, hist, calls, pr>>

NextBackup ==
    \E file_path \in BackupSources, target_dir \in BackupDirs,
       suffix \in Suffixes, fault \in BOOLEAN :
          BackUpCall(file_path, target_dir, suffix, fault)

SpecBackup == Init /\ [][NextBackup]_vars

---------------------------------------------------------------------------
(* request_confirmation and request_y_to_continue *)

\* the bound of "while i < 5", lines 325 and 355
MaxAttempts == 5
\* os.EX_NOPERM
EX_NOPERM == 77
\* the code of a Fatal raised without one, line 24
FatalDefaultCode == 1

PromptFns == {"request_confirmation", "request_y_to_continue"}
\* the timeout argument, as written by the caller
Timeouts == {"30", "abc"}
\* float(timeout) succeeds
FloatOk(timeout) == timeout = "30"
\* random.randint(10000, 99999)
RandomInts == {10000, 99999}
\* a line read from stdin, stripped
Responses == {"10000", "010000", "99999", "12345", "y", "Y", "n", "N", "yes", ""}
\* int(response): the number, or -1 for the ValueError that leaves the string
IntOf(response) ==
    CASE response \in {"10000", "010000"} -> 10000
      [] response = "99999" -> 99999
      [] response = "12345" -> 12345
      [] OTHER -> -1
\* response.lower()
Lower(response) ==
    CASE response = "Y" -> "y"
      [] response = "N" -> "n"
      [] OTHER -> response

\* lines 337 and 367: the response that ends the prompt with a normal return
\* (variant: any number, respectively any word starting like "yes", accepted)
ConfirmsUncompared(fn, response, random_int) ==
    IF fn = "request_confirmation"
    THEN IntOf(response) # -1
    ELSE Lower(response) \in {"y", "yes"}
Confirms(fn, response, random_int) ==
    IF fn = "request_confirmation"
    THEN IntOf(response) = random_int
    ELSE Lower(response) = "y"
\* line 369: the response that ends request_y_to_continue with a Fatal
Refuses(fn, response) ==
    fn = "request_y_to_continue" /\ Lower(response) = "n"

\* lines 316-324 and 348-354
PromptCall(fn, timeout, random_int) ==
    /\ pr.pc = "idle"
    /\ IF FloatOk(timeout)
       THEN pr' = [pr EXCEPT !.fn = fn, !.pc = "loop", !.i = 0,
                             !.random_int = IF fn = "request_confirmation"
                                            THEN random_int ELSE 0]
       ELSE pr' = [pr EXCEPT !.fn = fn, !.pc = "done", !.outcome = Raised("Fatal"),
                             !.code = EX_NOPERM]
    /\ UNCHANGED <<fs, ino, privileged, pc, args, loc, outcome, pre, hist, calls, bk>>

\* one turn of the loop in which select times out
AttemptTimeout ==
    /\ pr.pc = "loop"
    /\ pr.i < MaxAttempts
    /\ pr' = [pr EXCEPT !.i = @ + 1, !.answered = FALSE, !.response = ""]
    /\ UNCHANGED <<fs, ino, privileged, pc, args, loc, outcome, pre, hist, calls, bk>>

\* one turn of the loop in which a line is read
AttemptResponse(response) ==
    /\ pr.pc = "loop"
    /\ pr.i < MaxAttempts
    /\ IF Confirms(pr.fn, response, pr.random_int)
       THEN pr' = [pr EXCEPT !.i = @ + 1, !.answered = TRUE, !.response = response,
                             !.pc = "done", !.outcome = Returned("None")]
       ELSE IF Refuses(pr.fn, response)
       THEN pr' = [pr EXCEPT !.i = @ + 1, !.answered = TRUE, !.response = response,
                             !.pc = "done", !.outcome = Raised("Fatal"),
                             !.code = FatalDefaultCode]
       ELSE pr' = [pr EXCEPT !.i = @ + 1, !.answered = TRUE, !.response = response]
    /\ UNCHANGED <<fs, ino, privileged, pc, args, loc, outcome, pre, hist, calls, bk>>

\* lines 339 and 372: the loop ran out
AttemptsExhausted ==
    /\ pr.pc = "loop"
    /\ pr.i >= MaxAttempts
    /\ pr' = [pr EXCEPT !.pc = "done", !.outcome = Raised("Fatal"), !.code = EX_NOPERM]
    /\ UNCHANGED <<fs, ino, privileged, pc, args, loc, outcome, pre, hist, calls, bk>>

NextPrompt ==
    \/ \E fn \in PromptFns, timeout \in Timeouts, random_int \in RandomInts :
          PromptCall(fn, timeout, random_int)
    \/ AttemptTimeout
    \/ \E response \in Responses : AttemptResponse(response)
    \/ AttemptsExhausted

\* select returns when its timeout expires, so every turn of the loop ends
SpecPrompt == Init /\ [][NextPrompt]_vars /\ WF_vars(NextPrompt)

---------------------------------------------------------------------------
(* Properties of atomic_replace_file *)

\* a call is under way or has just ended
InCall == pc # "idle"
Ended == pc = "done"
\* the content a reader found at the path when the call started
OrigContent == Reads(pre.fs, pre.ino, args.file)
\* the metadata os.stat found at the path when the call started
OrigInode == pre.ino[Target(pre.fs, pre.ino, args.file)]
\* a call on a path at which there was a file to replace
Replacing == InCall /\ OrigContent # Absent
\* the backup path of the call
CallBackupPath == BackupPath(args.file, None, "_orig")

\* C1: when a file already exists at the backup path, the call aborts before
\* any destructive step: the original path is never unlinked, it still holds
\* its original content, and the call reports failure.
C1_BackupConflictAborts ==
    (InCall /\ hist.backup_conflict) =>
        /\ ~hist.unlinked
        /\ Reads(fs, ino, args.file) = OrigContent
        /\ Ended => outcome = Returned("False")

\* C2: whenever linking the temp file onto the vacated original path fails
\* (and the link back is not itself made to fail by the file system), the call
\* links the backup back and returns failure: the original path exists and
\* holds the content it had before the call.
C2_RollbackRestores ==
    (Ended /\ hist.swap_failed /\ ~hist.rollback_fault) =>
        /\ outcome = Returned("False")
        /\ Exists(fs, args.file)
        /\ Reads(fs, ino, args.file) = OrigContent

\* C3: in every state of a call, the original content is still found at the
\* original path or at the backup path, unless the original path already
\* holds the complete new content.
C3_Recoverable ==
    Replacing =>
        \/ Reads(fs, ino, args.file) = OrigContent
        \/ Reads(fs, ino, CallBackupPath) = OrigContent
        \/ Reads(fs, ino, args.file) = args.content

\* C4: whenever the call returns with the original path holding the right
\* content, the new one (success) or the restored original (failure), the
\* temp file and the backup file of the call have both been unlinked.
C4_ArtifactsEphemeral ==
    (/\ Ended /\ loc.file_temp_name # None
     /\ \/ outcome = Returned("True") /\ Reads(fs, ino, args.file) = args.content
        \/ outcome = Returned("False") /\ Reads(fs, ino, args.file) = OrigContent) =>
        /\ ~Exists(fs, loc.file_temp_name)
        /\ loc.file_backup # False => ~Exists(fs, loc.file_backup)

\* C5: for a path that passes through a symbolic link and follow_symlink
\* false, the call returns failure and changes nothing in the file system:
\* no temp file, no backup, the link and its target as they were.
C5_SymlinkGuardFailClosed ==
    (/\ InCall /\ ~args.follow_symlink
     /\ abspath(args.file) # realpath(pre.fs, pre.ino, args.file)) =>
        /\ fs = pre.fs
        /\ ino = pre.ino
        /\ loc = NoLoc
        /\ pc \in {"guard", "done"}
        /\ Ended => outcome = Returned("False")
C5_Witness ==
    /\ Ended /\ ~args.follow_symlink /\ args.file = <<"d", "lnk">>
    /\ outcome = Returned("False") /\ fs = pre.fs

\* what os.stat finds at the path now
NowInode == ino[Target(fs, ino, args.file)]
Succeeded == Ended /\ outcome = Returned("True")

\* C6 as stated: after a successful call the target has the owner, the group
\* and the low 12 bits of the mode (setuid, setgid and sticky included) it had
\* before, and the new content.
C6_Preserves12Bits ==
    Succeeded =>
        /\ NowInode.uid = OrigInode.uid
        /\ NowInode.gid = OrigInode.gid
        /\ NowInode.mode % 4096 = OrigInode.mode % 4096
        /\ Reads(fs, ino, args.file) = args.content

\* C6 as amended: after a successful call the target has the owner, the group
\* and the low 9 bits of the mode (rwx of user, group and others) it had
\* before, its setuid, setgid and sticky bits are cleared, and it holds the
\* new content.
C6_Preserves9Bits ==
    Succeeded =>
        /\ NowInode.uid = OrigInode.uid
        /\ NowInode.gid = OrigInode.gid
        /\ NowInode.mode = OrigInode.mode % 512
        /\ Reads(fs, ino, args.file) = args.content
C6_Witness ==
    /\ Succeeded /\ OrigInode.mode = 2541 /\ OrigInode.uid = 1000
    /\ NowInode.mode = 493 /\ NowInode.uid = 1000
    /\ Reads(fs, ino, args.file) = <<"a", "b">>

\* C8: symlink-guard rejection, backup conflict, swap failure with rollback
\* and swap failure without are each reported as a returned failure; an
\* exception reaches the caller only from the metadata read, the temp-file
\* creation, the content write (and the change of owner).
C8_OutcomesReturned ==
    Ended =>
        /\ outcome.kind = "raise" => hist.io_failed
        /\ (hist.backup_conflict \/ hist.swap_failed) => outcome = Returned("False")

\* C9 as stated: at every moment of a call a reader that opens the original
\* path finds a file, holding the complete old or the complete new content.
C9_AlwaysOldOrNew ==
    Replacing => Reads(fs, ino, args.file) \in {OrigContent, args.content}

\* C9 as amended: at every moment of a call a reader that opens the original
\* path finds the complete old content, the complete new content, or no file
\* at all (between the unlink and the link); never a partly written file, as
\* the temp file is linked only when all of the content is in it.
C9_NeverPartial ==
    Replacing =>
        /\ Reads(fs, ino, args.file) \in {OrigContent, args.content, Absent}
        /\ Target(fs, ino, args.file) = loc.file_temp_ino =>
               loc.written = Len(args.content)
C9_Witness ==
    /\ pc = "unlink_temp" /\ Len(args.content) = 2
    /\ Target(fs, ino, args.file) = loc.file_temp_ino
    /\ Reads(fs, ino, args.file) = args.content
    /\ OrigContent # args.content

---------------------------------------------------------------------------
(* Properties of back_up_file, under SpecBackup *)

BkCalled == bk.n > 0
\* the path the call computes, and the two cases the claim names
BkPath == BackupPath(bk.file_path, bk.target_dir, bk.suffix)
BkNoFilename == split(bk.file_path)[2] = ""
BkConflict == ~BkNoFilename /\ Exists(bk.fs, BkPath)
\* the directory entries now are those before the call plus one: the backup
\* path, another link to the source's inode
BkOneLinkAdded ==
    /\ DOMAIN fs = DOMAIN bk.fs \cup {BkPath}
    /\ BkPath \notin DOMAIN bk.fs
    /\ \A q \in DOMAIN bk.fs : fs[q] = bk.fs[q]
    /\ fs[BkPath] = bk.fs[bk.file_path]
    /\ NLink(fs, fs[BkPath]) = NLink(bk.fs, fs[BkPath]) + 1

\* C7 as stated: the backup path is join(target_dir or the directory of the
\* path, basename + suffix); when a file is already there or the file name is
\* empty the call returns failure and changes nothing; otherwise it adds
\* exactly one hard link to the source at the backup path and returns the path
\* (calls in which os.link meets an error of its own are left aside).
C7_LinksUnlessConflict ==
    (BkCalled /\ ~bk.fault) =>
        IF BkNoFilename \/ BkConflict
        THEN bk.ret = False /\ fs = bk.fs
        ELSE bk.ret = BkPath /\ BkOneLinkAdded

\* C7 as amended: when a file is already at the backup path or the file name
\* is empty the call returns failure; whenever it returns failure nothing is
\* changed, neither the file at the backup path nor the source; when it does
\* not, it has added exactly one hard link to the source at the backup path
\* and returns that path.  It links whenever the source exists, the backup
\* directory is on the source's device and os.link meets no other error;
\* when os.link fails for such a reason the call returns failure as well.
C7_NeverClobbers ==
    BkCalled =>
        /\ (BkNoFilename \/ BkConflict) => bk.ret = False
        /\ bk.ret = False => fs = bk.fs
        /\ bk.ret # False => bk.ret = BkPath /\ BkOneLinkAdded
        /\ (/\ ~BkNoFilename /\ ~BkConflict /\ ~bk.fault
            /\ Exists(bk.fs, bk.file_path)
            /\ Device(dirname(bk.file_path)) = Device(dirname(BkPath)))
               => bk.ret = BkPath
C7_Witness ==
    /\ BkCalled /\ BkConflict /\ ~bk.fault /\ Exists(bk.fs, bk.file_path)
    /\ bk.ret = False /\ fs = bk.fs

---------------------------------------------------------------------------
(* Properties of the prompts, under SpecPrompt *)

PromptDone == pr.pc = "done"
\* the response is the displayed number, respectively "y" (in either case)
C10_Accepted ==
    /\ pr.answered
    /\ IF pr.fn = "request_confirmation"
       THEN \/ pr.response \in {"10000", "010000"} /\ pr.random_int = 10000
            \/ pr.response = "99999" /\ pr.random_int = 99999
       ELSE pr.response \in {"y", "Y"}
C10_Safe ==
    /\ pr.i <= MaxAttempts
    /\ PromptDone => pr.outcome \in {Returned("None"), Raised("Fatal")}
    /\ (PromptDone /\ pr.outcome = Returned("None")) => C10_Accepted
    /\ (PromptDone /\ pr.answered /\ pr.fn = "request_y_to_continue"
                   /\ pr.response \in {"n", "N"}) => pr.outcome = Raised("Fatal")
    /\ (PromptDone /\ pr.outcome = Raised("Fatal")) =>
          \/ pr.code = EX_NOPERM /\ pr.i = MaxAttempts /\ ~C10_Accepted
          \/ pr.code = EX_NOPERM /\ pr.i = 0
          \/ /\ pr.fn = "request_y_to_continue" /\ pr.answered
             /\ pr.response \in {"n", "N"}
    /\ (pr.pc = "loop" /\ pr.i > 0) => ~C10_Accepted

\* C10: each prompt makes at most five attempts; it returns normally only on
\* an attempt whose response is the displayed number (respectively "y"),
\* request_y_to_continue raises Fatal at once on "n", five failed attempts end
\* in Fatal with code EX_NOPERM, and every call ends, with a normal return or
\* a Fatal.
C10_BoundedPrompts == []C10_Safe /\ ((pr.pc = "loop") ~> PromptDone)
C10_Witness ==
    /\ PromptDone /\ pr.i = 5 /\ pr.outcome = Raised("Fatal") /\ pr.code = 77
    /\ pr.fn = "request_confirmation" /\ pr.answered /\ pr.response = "12345"

====
